---- MODULE Spec2Model ----
(***************************************************************************)
(* Verification model of the regulatory-graph analysis kernel:             *)
(*   - Sign addition                     (signed_directed_graph/mod.rs)    *)
(*   - exact_fvs / exact_fvs_solver      (signed_directed_graph/mod.rs)    *)
(*   - build_static_constraints          (bdd_params/impl_static_...rs)    *)
(* A Bdd is modelled by the set of valuations it accepts; a valuation is   *)
(* the set of Bdd variables it sets to true.                               *)
(***************************************************************************)
EXTENDS Integers, Sequences, FiniteSets, TLC

VARIABLES
    pc,                  \* position of the running procedure
    graph,               \* the RegulatoryGraph: [n |-> #variables, edges |-> set of <<regulator, target>>]
    candidate_variables, \* exact_fvs: Vec<VariableId> of decision variables
    upper_bound,         \* exact_fvs: the greedy feedback vertex set
    min_size,            \* exact_fvs: |independent_cycles()|
    k,                   \* exact_fvs: the cardinality currently searched
    candidates,          \* exact_fvs: the Bdd cands_k
    last_candidate,      \* exact_fvs: the valuation extracted by the latest inner iteration
    last_cycle,          \* exact_fvs: the conflict cycle chosen by the latest inner iteration
    target_size,         \* exact_fvs_solver: the cardinality currently searched
    solver,              \* exact_fvs_solver: the assertion stack, one set of assertions per scope (the first is the base level)
    ret,                 \* which return statement produced the result
    result,              \* the returned set
    other_run,           \* exact_fvs: the locals of a second run on the same graph
    signs,               \* Sign: the edge signs of a path, in order
    parity,              \* Sign: the sum of `signs` accumulated with `+`
    network,             \* build_static_constraints: the BooleanNetwork
    reg_index,           \* build_static_constraints: position in bn.graph.regulations
    condition,           \* build_static_constraints: the accumulated Bdd
    unit_bdd,            \* SymbolicAsyncGraph: the unit set, pairs <<state, colour>>
    update_functions,    \* SymbolicAsyncGraph: per variable, the pairs at which it changes
    arg,                 \* the argument of the call on the graph (a state, a coloured vertex set)
    basin                \* forward_closed: the set being narrowed

vars == <<pc, graph, candidate_variables, upper_bound, min_size, k, candidates,
          last_candidate, last_cycle, target_size, solver, ret, result, other_run,
          signs, parity, network, reg_index, condition, unit_bdd, update_functions,
          arg, basin>>

signVars == <<signs, parity>>

netVars == <<network, reg_index, condition>>

\* The state of the procedures on a SymbolicAsyncGraph.
asyncVars == <<unit_bdd, update_functions, arg, basin>>

\* The state of the procedures that do not work on a regulatory graph.
otherVars == <<signVars, netVars, asyncVars>>

fvsVars == <<candidate_variables, upper_bound, min_size, k, candidates, last_candidate, last_cycle,
             other_run>>

solverVars == <<target_size, solver>>

\* The state of the procedures that work on a regulatory graph.
procVars == <<pc, graph, fvsVars, solverVars, ret, result>>

----------------------------------------------------------------------------
(* Bounds of the model.                                                    *)

\* Every regulatory graph over NumVars variables (any set of regulations,
\* self-loops included) is an input of the FVS procedures.
NumVars == 3

\* Paths of up to MaxPath signed edges are summed.
MaxPath == 6

\* Every network with one target of up to MaxRegs regulators, any flags on
\* its regulations, is an input of the constraint compiler.
MaxRegs == 2

\* The greatest number of regulators in the monotonicity tests (a, b, c, d).
TestRegs == 4

----------------------------------------------------------------------------
(* Generic helpers.                                                        *)

Range(s) == {s[i] : i \in DOMAIN s}

Min(S) == CHOOSE x \in S : \A y \in S : x <= y

Max(S) == CHOOSE x \in S : \A y \in S : x >= y

\* The only element of a one-element set: The({e(x) : x \in {v}}) is e(v) with
\* v computed once.
The(S) == CHOOSE x \in S : TRUE

RECURSIVE SortedSeq(_)
\* The elements of a finite set of integers in ascending order.
SortedSeq(S) == IF S = {} THEN <<>> ELSE <<Min(S)>> \o SortedSeq(S \ {Min(S)})

----------------------------------------------------------------------------
(* Sign and its addition.                                                  *)

\* enum Sign { Positive, Negative }
Sign == {"Positive", "Negative"}

\* Mutant of Add: two negative signs stay negative.
AddNegativeSticky(a, b) == IF a = "Positive" /\ b = "Positive" THEN "Positive" ELSE "Negative"

\* impl Add for Sign
Add(a, b) ==
    CASE a = "Positive" /\ b = "Positive" -> "Positive"
      [] a = "Negative" /\ b = "Negative" -> "Positive"
      [] a = "Positive" /\ b = "Negative" -> "Negative"
      [] a = "Negative" /\ b = "Positive" -> "Negative"

\* The first edge of a path: its sign is the parity so far.
SignFirst(s) ==
    /\ signs = <<>>
    /\ signs' = <<s>>
    /\ parity' = s
    /\ UNCHANGED <<procVars, netVars, asyncVars>>

\* One more edge: parity + sign of the edge.
SignAppend(s) ==
    /\ signs # <<>>
    /\ Len(signs) < MaxPath
    /\ signs' = Append(signs, s)
    /\ parity' = Add(parity, s)
    /\ UNCHANGED <<procVars, netVars, asyncVars>>

----------------------------------------------------------------------------
(* The regulatory graph.                                                   *)

\* self.variables(): ids 0..n-1 in ascending order.
Variables(g) == 0 .. (g.n - 1)

\* self.regulators(var): the regulators of var, sorted by id.
Regulators(g, v) == SortedSeq({u \in Variables(g) : <<u, v>> \in g.edges})

\* self.targets(var): the targets of var, sorted by id.
Targets(g, v) == SortedSeq({t \in Variables(g) : <<v, t>> \in g.edges})

\* Named graphs: the scenarios of the specification and graphs on which the
\* greedy bounds are not tight.
SelfLoop == [n |-> 1, edges |-> {<<0, 0>>}]

ThreeCycle == [n |-> 3, edges |-> {<<0, 1>>, <<1, 2>>, <<2, 0>>}]

DisjointCycles == [n |-> 4, edges |-> {<<0, 1>>, <<1, 0>>, <<2, 3>>, <<3, 2>>}]

\* Variable 1 lies on every cycle, variable 0 has the same degree and a lower id.
GreedyTrap == [n |-> 4, edges |-> {<<0, 1>>, <<1, 0>>, <<1, 2>>, <<2, 1>>,
                                   <<3, 0>>, <<0, 2>>}]

\* Lower bound 1, minimum 2, greedy 3: the search fails at k = 1 and succeeds at k = 2.
TwoStepSearch == [n |-> 5, edges |-> {<<0, 2>>, <<1, 0>>, <<1, 4>>, <<2, 1>>, <<2, 4>>,
                                      <<3, 0>>, <<3, 1>>, <<3, 2>>, <<4, 0>>, <<4, 3>>}]

\* Lower bound 1, minimum 1, greedy 3.
LooseGreedy == [n |-> 5, edges |-> {<<0, 4>>, <<1, 0>>, <<1, 2>>, <<1, 4>>, <<2, 0>>,
                                    <<2, 4>>, <<3, 0>>, <<3, 1>>, <<3, 2>>, <<4, 3>>}]

\* The complete graph on five variables without self-loops: lower bound 2,
\* minimum and greedy 4, the search fails at k = 2 and at k = 3.
Complete5 == [n |-> 5, edges |-> {e \in (0 .. 4) \X (0 .. 4) : e[1] # e[2]}]

ScenarioGraphs == {SelfLoop, ThreeCycle, DisjointCycles, GreedyTrap, TwoStepSearch,
                   LooseGreedy, Complete5}

AllGraphs(n) == {[n |-> n, edges |-> E] : E \in SUBSET ((0 .. (n - 1)) \X (0 .. (n - 1)))}

Graphs == AllGraphs(NumVars) \cup ScenarioGraphs

----------------------------------------------------------------------------
(* Reference notions the claims are stated with (not taken from the code). *)

RECURSIVE ReachFrom(_, _, _)
\* The vertices of R reachable from the set S by one or more edges inside R.
ReachFrom(g, R, S) ==
    LET step == {t \in R : \E s \in S : <<s, t>> \in g.edges}
    IN  IF step \subseteq S THEN S ELSE ReachFrom(g, R, S \cup step)

OneStep(g, R, v) == {t \in R : <<v, t>> \in g.edges}

\* v lies on a cycle of the sub-graph induced by R.
OnCycle(g, R, v) == v \in R /\ v \in ReachFrom(g, R, OneStep(g, R, v))

HasCycle(g, R) == \E v \in R : OnCycle(g, R, v)

\* F is a feedback vertex set: the graph without F is acyclic.
IsFVS(g, F) == ~HasCycle(g, Variables(g) \ F)

MinFvsSize(g) == Min({Cardinality(F) : F \in {X \in SUBSET Variables(g) : IsFVS(g, X)}})

----------------------------------------------------------------------------
(* The signed-directed-graph kernel used by the exact solvers: cycle        *)
(* finder, greedy independent cycles and greedy feedback vertex set         *)
(* (sections 4.4 and 4.5 of the specification).  A missing cycle (None) is   *)
(* the empty sequence.                                                      *)

RECURSIVE PathTo(_, _, _)
\* The BFS tree path pivot .. v.
PathTo(parent, pivot, v) ==
    IF v = pivot THEN <<pivot>> ELSE Append(PathTo(parent, pivot, parent[v]), v)

RECURSIVE Bfs(_, _, _, _, _)
\* Breadth-first search from pivot along successors inside R, successors in
\* ascending id order; the first dequeued vertex with an edge back to the
\* pivot closes the cycle.
Bfs(g, R, pivot, queue, parent) ==
    IF queue = <<>> THEN <<>>
    ELSE LET v    == Head(queue)
             succ == SortedSeq(OneStep(g, R, v))
             new  == SelectSeq(succ, LAMBDA s : s \notin DOMAIN parent)
         IN  IF pivot \in Range(succ)
             THEN PathTo(parent, pivot, v)
             ELSE The({Bfs(g, R, pivot, next[1], next[2]) :
                       next \in {<<Tail(queue) \o new,
                                   [x \in (DOMAIN parent) \cup Range(new) |->
                                       IF x \in DOMAIN parent THEN parent[x] ELSE v]>>}})

\* graph.shortest_cycle(&restriction, pivot, usize::MAX)
shortest_cycle(g, R, pivot) ==
    IF pivot \notin R THEN <<>>
    ELSE Bfs(g, R, pivot, <<pivot>>, [x \in {pivot} |-> pivot])

\* in-degree + out-degree of v inside R.
Degree(g, R, v) ==
    Cardinality({u \in R : <<u, v>> \in g.edges}) + Cardinality({t \in R : <<v, t>> \in g.edges})

\* The shortest cycle of every vertex of R.
CyclesOf(g, R) == [v \in R |-> shortest_cycle(g, R, v)]

\* The vertex-selection heuristic: shortest cycle length first, then higher
\* degree, then lower id.  `cyc` is CyclesOf(g, R).
Better(g, R, cyc, a, b) ==
    LET la == Len(cyc[a])
        lb == Len(cyc[b])
    IN  \/ la < lb
        \/ la = lb /\ Degree(g, R, a) > Degree(g, R, b)
        \/ la = lb /\ Degree(g, R, a) = Degree(g, R, b) /\ a <= b

BestVertex(g, R, cyc) ==
    LET cyclic == {v \in R : cyc[v] # <<>>}
    IN  CHOOSE v \in cyclic : \A w \in cyclic : Better(g, R, cyc, v, w)

RECURSIVE restricted_feedback_vertex_set(_, _)
\* Greedy FVS: remove the best vertex until the restriction is acyclic.
restricted_feedback_vertex_set(g, R) ==
    The({IF \A v \in R : cyc[v] = <<>> THEN {}
         ELSE The({{b} \cup restricted_feedback_vertex_set(g, R \ {b}) :
                   b \in {BestVertex(g, R, cyc)}}) :
         cyc \in {CyclesOf(g, R)}})

RECURSIVE restricted_independent_cycles_overlapping(_, _)
\* Mutant of restricted_independent_cycles: only the best vertex is removed,
\* so the emitted cycles may share vertices.
restricted_independent_cycles_overlapping(g, R) ==
    The({IF \A v \in R : cyc[v] = <<>> THEN <<>>
         ELSE The({<<cyc[b]>> \o restricted_independent_cycles_overlapping(g, R \ {b}) :
                   b \in {BestVertex(g, R, cyc)}}) :
         cyc \in {CyclesOf(g, R)}})

RECURSIVE restricted_independent_cycles(_, _)
\* Greedy independent cycles: emit the shortest cycle of the best vertex and
\* remove all its vertices, until no vertex has a cycle.
restricted_independent_cycles(g, R) ==
    The({IF \A v \in R : cyc[v] = <<>> THEN <<>>
         ELSE The({<<c>> \o restricted_independent_cycles(g, R \ Range(c)) :
                   c \in {cyc[BestVertex(g, R, cyc)]}}) :
         cyc \in {CyclesOf(g, R)}})

\* RegulatoryGraph::feedback_vertex_set
feedback_vertex_set(g) == restricted_feedback_vertex_set(g, Variables(g))

\* RegulatoryGraph::independent_cycles
independent_cycles(g) == restricted_independent_cycles(g, Variables(g))

\* RegulatoryGraph::shortest_cycle(pivot)
graph_shortest_cycle(g, pivot) == shortest_cycle(g, Variables(g), pivot)

----------------------------------------------------------------------------
(* The symbolic engine operations exact_fvs uses (biodivine_lib_bdd).       *)

\* ctx.mk_sat_exactly_k(k, &all_vars)
mk_sat_exactly_k(n, all_vars) == {val \in SUBSET all_vars : Cardinality(val) = n}

\* ctx.mk_disjunctive_clause(&valuation) for a partial valuation that sets
\* the variables `lits` to true; the empty clause is false.
mk_disjunctive_clause(all_vars, lits) == {val \in SUBSET all_vars : val \cap lits # {}}

\* Bdd::and
BddAnd(a, b) == a \cap b

\* Bdd::most_negative_valuation: a valuation of the Bdd with the greatest
\* number of false variables (None for the false Bdd).  Which of several
\* such valuations the library returns is left open: the set of them all.
most_negative_valuation(bdd) ==
    {val \in bdd : \A other \in bdd : Cardinality(val) <= Cardinality(other)}

----------------------------------------------------------------------------
(* RegulatoryGraph::exact_fvs.                                              *)

\* Mutant of PassThrough: the first regulator (or target) is tested without
\* asking whether it is the only one.
PassThroughAnyCount(g, var, cands) ==
    LET regulators == Regulators(g, var)
        targets    == Targets(g, var)
    IN  \/ Len(regulators) >= 1 /\ regulators[1] \in Range(cands)
        \/ Len(targets) >= 1 /\ targets[1] \in Range(cands)

\* The two pass-through tests of the candidate loop: var has exactly one
\* regulator (or target) and that one is already a candidate.
PassThrough(g, var, cands) ==
    LET regulators == Regulators(g, var)
        targets    == Targets(g, var)
    IN  \/ Len(regulators) = 1 /\ regulators[1] \in Range(cands)
        \/ Len(targets) = 1 /\ targets[1] \in Range(cands)

RECURSIVE CandidateLoopKeepsAcyclic(_, _, _)
\* Mutant of CandidateLoop: variables on no cycle are not skipped.
CandidateLoopKeepsAcyclic(g, var, cands) ==
    IF var >= g.n THEN cands
    ELSE IF PassThrough(g, var, cands)
         THEN CandidateLoopKeepsAcyclic(g, var + 1, cands)
         ELSE CandidateLoopKeepsAcyclic(g, var + 1, Append(cands, var))

RECURSIVE CandidateLoop(_, _, _)
\* for var in self.variables() { ... candidate_variables.push(var) }
CandidateLoop(g, var, cands) ==
    IF var >= g.n THEN cands
    ELSE IF graph_shortest_cycle(g, var) = <<>> \/ PassThrough(g, var, cands)
         THEN CandidateLoop(g, var + 1, cands)
         ELSE CandidateLoop(g, var + 1, Append(cands, var))

CandidateVariables(g) == CandidateLoop(g, 0, <<>>)

\* ctx.variables(): one Bdd variable per candidate, numbered from 0.
AllVars(cands) == 0 .. (Len(cands) - 1)

\* bdd_vars: the map VariableId -> BddVariable, the i-th candidate to the i-th variable.
BddVars(cands) == [v \in Range(cands) |-> (CHOOSE i \in DOMAIN cands : cands[i] = v) - 1]

\* Mutant of build_cycle_clause: the clause excludes nothing.
build_cycle_clause_true(cands, cycle) == SUBSET AllVars(cands)

build_cycle_clause(cands, cycle) ==
    LET bdd_vars == BddVars(cands)
    IN  mk_disjunctive_clause(AllVars(cands),
                              {bdd_vars[v] : v \in Range(cycle) \cap DOMAIN bdd_vars})

valuation_to_fvs(cands, valuation) ==
    LET bdd_vars == BddVars(cands)
    IN  {n_var \in DOMAIN bdd_vars : bdd_vars[n_var] \in valuation}

RECURSIVE ConflictLoop(_, _, _)
\* for var in self.variables().rev(): the shortest cycle of every variable
\* of the restriction that has one, in descending pivot order.
ConflictLoop(g, restriction, var) ==
    IF var < 0 THEN <<>>
    ELSE LET cycle == shortest_cycle(g, restriction, var)
         IN  IF var \notin restriction \/ cycle = <<>>
             THEN ConflictLoop(g, restriction, var - 1)
             ELSE <<cycle>> \o ConflictLoop(g, restriction, var - 1)

\* Mutant of ConflictCycles: only the greatest variable is used as a pivot.
ConflictCyclesTopOnly(g, fvs) ==
    LET cycle == shortest_cycle(g, Variables(g) \ fvs, g.n - 1)
    IN  IF cycle = <<>> THEN <<>> ELSE <<cycle>>

ConflictCycles(g, fvs) == ConflictLoop(g, Variables(g) \ fvs, g.n - 1)

RECURSIVE InsertByMax(_, _)
\* Stable insertion of a cycle into a list sorted by descending greatest id.
InsertByMax(sorted, c) ==
    IF sorted = <<>> THEN <<c>>
    ELSE IF Max(Range(Head(sorted))) >= Max(Range(c))
         THEN <<Head(sorted)>> \o InsertByMax(Tail(sorted), c)
         ELSE <<c>> \o sorted

RECURSIVE SortByMaxDesc(_, _)
\* conflict_cycles.sort_by(|a, b| max(a).cmp(max(b)).reverse()), a stable sort.
SortByMaxDesc(cycles, acc) ==
    IF cycles = <<>> THEN acc
    ELSE SortByMaxDesc(Tail(cycles), InsertByMax(acc, Head(cycles)))

\* conflict_cycles[0] after the sort.
ChosenCycle(cycles) == SortByMaxDesc(cycles, <<>>)[1]

\* Lines 213-254 and the entry of the outer loop.
FvsStart ==
    /\ pc = "start"
    /\ \E cands \in {CandidateVariables(graph)},
          cycles \in {independent_cycles(graph)},
          greedy \in {feedback_vertex_set(graph)} :
           /\ candidate_variables' = cands
           /\ min_size' = Len(cycles)
           /\ IF cycles = <<>>
              THEN /\ result' = {}
                   /\ ret' = "no_cycles"
                   /\ pc' = "done"
                   /\ UNCHANGED <<upper_bound, k, candidates>>
              ELSE /\ upper_bound' = greedy
                   /\ IF Len(cycles) = Cardinality(greedy)
                      THEN /\ result' = greedy
                           /\ ret' = "lucky"
                           /\ pc' = "done"
                           /\ UNCHANGED <<k, candidates>>
                      ELSE IF Len(cycles) < Cardinality(greedy)
                      THEN /\ k' = Len(cycles)
                           /\ candidates' = mk_sat_exactly_k(Len(cycles), AllVars(cands))
                           /\ pc' = "inner"
                           /\ UNCHANGED <<ret, result>>
                      ELSE /\ result' = greedy
                           /\ ret' = "fallthrough"
                           /\ pc' = "done"
                           /\ UNCHANGED <<k, candidates>>
    /\ UNCHANGED <<graph, last_candidate, last_cycle, solverVars, otherVars>>

\* One iteration of `while let Some(candidate) = candidates.most_negative_valuation()`.
FvsInner ==
    /\ pc = "inner"
    /\ \E candidate \in most_negative_valuation(candidates) :
          \E fvs \in {valuation_to_fvs(candidate_variables, candidate)} :
          \E conflict_cycles \in {ConflictCycles(graph, fvs)} :
              /\ last_candidate' = candidate
              /\ IF conflict_cycles = <<>>
                 THEN /\ result' = fvs
                      /\ ret' = "feasible"
                      /\ pc' = "done"
                      /\ UNCHANGED <<candidates, last_cycle>>
                 ELSE /\ last_cycle' = ChosenCycle(conflict_cycles)
                      /\ candidates' = BddAnd(candidates,
                              build_cycle_clause(candidate_variables, ChosenCycle(conflict_cycles)))
                      /\ UNCHANGED <<pc, ret, result>>
    /\ UNCHANGED <<graph, candidate_variables, upper_bound, min_size, k, solverVars, otherVars>>

\* Mutant of FvsNextK: the search gives up after the first k.
FvsNextKGivesUp ==
    /\ pc = "inner"
    /\ most_negative_valuation(candidates) = {}
    /\ result' = upper_bound
    /\ ret' = "fallthrough"
    /\ pc' = "done"
    /\ UNCHANGED <<graph, candidate_variables, upper_bound, min_size, k, candidates,
                   last_candidate, last_cycle, solverVars, otherVars>>

\* The inner loop ended (cands_k is false): the next k, or the fall-through
\* `upper_bound` when the range min_size..max_size is exhausted.
FvsNextK ==
    /\ pc = "inner"
    /\ most_negative_valuation(candidates) = {}
    /\ IF k + 1 < Cardinality(upper_bound)
       THEN /\ k' = k + 1
            /\ candidates' = mk_sat_exactly_k(k + 1, AllVars(candidate_variables))
            /\ UNCHANGED <<pc, ret, result>>
       ELSE /\ result' = upper_bound
            /\ ret' = "fallthrough"
            /\ pc' = "done"
            /\ UNCHANGED <<k, candidates>>
    /\ UNCHANGED <<graph, candidate_variables, upper_bound, min_size, last_candidate, last_cycle,
                   solverVars, otherVars>>

\* The state before a procedure runs on its input.
Idle ==
    /\ pc = "start"
    /\ candidate_variables = <<>>
    /\ upper_bound = {}
    /\ min_size = 0
    /\ k = 0
    /\ candidates = {}
    /\ last_candidate = {}
    /\ last_cycle = <<>>
    /\ target_size = 0
    /\ solver = <<>>
    /\ ret = "none"
    /\ result = {}
    /\ other_run = <<>>

\* No path of signs is being summed.
IdleSign == signs = <<>> /\ parity = "Positive"

\* No network is being compiled.
IdleNet == network = <<>> /\ reg_index = 0 /\ condition = {}

\* No SymbolicAsyncGraph has been built.
IdleAsync == unit_bdd = {} /\ update_functions = <<>> /\ arg = {} /\ basin = {}

InitFvs ==
    /\ graph \in Graphs
    /\ Idle
    /\ IdleSign
    /\ IdleNet
    /\ IdleAsync

\* One run of exact_fvs.
NextFvs ==
    \/ FvsStart /\ UNCHANGED other_run
    \/ FvsInner /\ UNCHANGED other_run
    \/ FvsNextK /\ UNCHANGED other_run

SpecFvs == InitFvs /\ [][NextFvs]_vars

\* exact_fvs is sequential code: a step that can be taken is taken.
SpecFvsFair == SpecFvs /\ WF_vars(NextFvs)

----------------------------------------------------------------------------
(* Two runs of exact_fvs on the same graph.  The variables hold the first   *)
(* run; other_run holds the locals of the second, whose hash-based          *)
(* collections are iterated in an order of their own.  Both runs use the    *)
(* same Bdd library: the same Bdd gives the same most negative valuation.   *)

\* The orders in which bdd_vars.iter() may visit the keys of the map.
IterationOrders(cands) ==
    {order \in [1 .. Len(cands) -> Range(cands)] :
        \A i, j \in 1 .. Len(cands) : i # j => order[i] # order[j]}

RECURSIVE ValuationLoopFirst(_, _, _, _, _)
\* Mutant of ValuationLoop: the loop ends at the first selected variable.
ValuationLoopFirst(order, i, bdd_vars, valuation, set) ==
    IF i > Len(order) THEN set
    ELSE IF bdd_vars[order[i]] \in valuation
         THEN set \cup {order[i]}
         ELSE ValuationLoopFirst(order, i + 1, bdd_vars, valuation, set)

RECURSIVE ValuationLoop(_, _, _, _, _)
\* for (n_var, b_var) in bdd_vars.iter() { if valuation[*b_var] { result.insert(*n_var) } }
ValuationLoop(order, i, bdd_vars, valuation, set) ==
    IF i > Len(order) THEN set
    ELSE ValuationLoop(order, i + 1, bdd_vars, valuation,
                       IF bdd_vars[order[i]] \in valuation THEN set \cup {order[i]} ELSE set)

\* valuation_to_fvs with the map visited in the given order.
valuation_to_fvs_in(order, cands, valuation) ==
    ValuationLoop(order, 1, BddVars(cands), valuation, {})

\* The locals of the first run, as the second run keeps them.
ThisRun(a_pc, a_k, a_candidates, a_last_cycle, a_ret, a_result) ==
    [pc |-> a_pc, k |-> a_k, candidates |-> a_candidates, last_cycle |-> a_last_cycle,
     ret |-> a_ret, result |-> a_result]

\* One inner iteration of the second run on the extracted candidate.
InnerOf(run, candidate, order) ==
    The({IF conflict_cycles = <<>>
         THEN [run EXCEPT !.pc = "done", !.ret = "feasible",
                          !.result = valuation_to_fvs_in(order, candidate_variables, candidate)]
         ELSE [run EXCEPT !.last_cycle = ChosenCycle(conflict_cycles),
                          !.candidates = BddAnd(run.candidates,
                              build_cycle_clause(candidate_variables, ChosenCycle(conflict_cycles)))] :
         conflict_cycles \in
             {ConflictCycles(graph, valuation_to_fvs_in(order, candidate_variables, candidate))}})

\* The end of the inner loop of the second run.
NextKOf(run) ==
    IF run.k + 1 < Cardinality(upper_bound)
    THEN [run EXCEPT !.k = run.k + 1,
                     !.candidates = mk_sat_exactly_k(run.k + 1, AllVars(candidate_variables))]
    ELSE [run EXCEPT !.pc = "done", !.ret = "fallthrough", !.result = upper_bound]

\* Both runs go through lines 213-254, which iterate no hash-based collection.
RunsStart ==
    /\ FvsStart
    /\ other_run' = ThisRun(pc', k', candidates', last_cycle', ret', result')

\* Both runs do an inner iteration, the second with its own iteration order.
RunsInner ==
    /\ pc = "inner"
    /\ other_run.pc = "inner"
    /\ FvsInner
    /\ \E order \in IterationOrders(candidate_variables) :
          \E candidate \in (IF other_run.candidates = candidates
                             THEN {last_candidate'}
                             ELSE most_negative_valuation(other_run.candidates)) :
              other_run' = InnerOf(other_run, candidate, order)

\* Both runs leave the inner loop.
RunsNextK ==
    /\ pc = "inner"
    /\ other_run.pc = "inner"
    /\ most_negative_valuation(other_run.candidates) = {}
    /\ FvsNextK
    /\ other_run' = NextKOf(other_run)

NextFvsRuns == RunsStart \/ RunsInner \/ RunsNextK

\* The graphs the two runs are given: all but the complete graph, whose
\* search is the longest.
InitFvsRuns ==
    /\ InitFvs
    /\ graph # Complete5

SpecFvsRuns == InitFvsRuns /\ [][NextFvsRuns]_vars

----------------------------------------------------------------------------
(* RegulatoryGraph::exact_fvs_solver (the pseudo-Boolean solver variant).   *)

\* Bool::pb_eq(&z3, &var_counts, target_size): exactly n variables are true.
PbEq(n) == [kind |-> "pb_eq", size |-> n, members |-> {}]

\* Mutant of OrOf: only the first member of the cycle is asserted.
OrOfFirst(cycle) == [kind |-> "or", size |-> 0, members |-> {cycle[1]}]

\* Bool::or(&z3, &cycle_members)
OrOf(cycle) == [kind |-> "or", size |-> 0, members |-> Range(cycle)]

\* A set of true variables satisfies an assertion.
Satisfies(S, a) ==
    IF a.kind = "pb_eq" THEN Cardinality(S) = a.size ELSE S \cap a.members # {}

\* Every assertion the solver holds, over all scopes.
Assertions(stack) == UNION {stack[i] : i \in DOMAIN stack}

\* solver.check() and solver.get_model(): the models of the asserted
\* formulas, as sets of true variables (empty: Unsat).
Models(g, stack) ==
    {S \in SUBSET Variables(g) : \A a \in Assertions(stack) : Satisfies(S, a)}

\* solver.push()
Push(stack) == Append(stack, {})

\* solver.assert(a): into the innermost scope.
AssertIn(stack, a) == [stack EXCEPT ![Len(stack)] = @ \cup {a}]

\* Mutant of Pop: every scope is dropped, the base assertions with it.
PopAll(stack) == <<{}>>

\* solver.pop(1)
Pop(stack) == SubSeq(stack, 1, Len(stack) - 1)

RECURSIVE InsertByLen(_, _)
\* Stable insertion of a cycle into a list sorted by ascending length.
InsertByLen(sorted, c) ==
    IF sorted = <<>> THEN <<c>>
    ELSE IF Len(Head(sorted)) <= Len(c)
         THEN <<Head(sorted)>> \o InsertByLen(Tail(sorted), c)
         ELSE <<c>> \o sorted

RECURSIVE SortByLen(_, _)
\* conflict_cycles.sort_by(|a, b| a.len().cmp(&b.len())), a stable sort.
SortByLen(cycles, acc) ==
    IF cycles = <<>> THEN acc
    ELSE SortByLen(Tail(cycles), InsertByLen(acc, Head(cycles)))

\* conflict_cycles[0] after the sort by length.
ShortestConflict(cycles) == SortByLen(cycles, <<>>)[1]

\* Lines 123-150: the early return and the first target size.
SolverStart ==
    /\ pc = "start"
    /\ \E cycles \in {independent_cycles(graph)} :
           IF cycles = <<>>
           THEN /\ result' = {}
                /\ ret' = "no_cycles"
                /\ pc' = "done"
                /\ UNCHANGED solverVars
           ELSE /\ target_size' = Len(cycles)
                /\ solver' = <<{}>>
                /\ pc' = "loop"
                /\ UNCHANGED <<ret, result>>
    /\ UNCHANGED <<graph, fvsVars, otherVars>>

\* Lines 152-155: push a scope and assert the cardinality constraint.
SolverPush ==
    /\ pc = "loop"
    /\ solver' = AssertIn(Push(solver), PbEq(target_size))
    /\ pc' = "check"
    /\ UNCHANGED <<graph, fvsVars, target_size, ret, result, otherVars>>

\* Lines 156-207: solver.check() and the branch taken.  A target size
\* above the number of variables can never be satisfied again: the loop
\* would run forever ("diverged").
SolverCheck ==
    /\ pc = "check"
    /\ IF Models(graph, solver) = {}
       THEN /\ solver' = Pop(solver)
            /\ target_size' = target_size + 1
            /\ pc' = IF target_size >= graph.n THEN "diverged" ELSE "loop"
            /\ UNCHANGED <<ret, result>>
       ELSE \E fvs_candidate \in Models(graph, solver) :
              \E conflict_cycles \in {ConflictCycles(graph, fvs_candidate)} :
                  IF conflict_cycles = <<>>
                  THEN /\ result' = fvs_candidate
                       /\ ret' = "feasible"
                       /\ pc' = "done"
                       /\ UNCHANGED solverVars
                  ELSE /\ solver' = AssertIn(Pop(solver), OrOf(ShortestConflict(conflict_cycles)))
                       /\ pc' = "loop"
                       /\ UNCHANGED <<target_size, ret, result>>
    /\ UNCHANGED <<graph, fvsVars, otherVars>>

InitSolver ==
    /\ graph \in Graphs
    /\ Idle
    /\ IdleSign
    /\ IdleNet
    /\ IdleAsync

NextSolver == SolverStart \/ SolverPush \/ SolverCheck

SpecSolver == InitSolver /\ [][NextSolver]_vars

----------------------------------------------------------------------------
(* Summing the signs of a path.                                             *)

\* No regulatory graph is being analysed.
IdleGraph == graph = [n |-> 0, edges |-> {}]

InitSign ==
    /\ IdleGraph
    /\ Idle
    /\ IdleSign
    /\ IdleNet
    /\ IdleAsync

NextSign == \E s \in Sign : SignFirst(s) \/ SignAppend(s)

SpecSign == InitSign /\ [][NextSign]_vars

----------------------------------------------------------------------------
(* Boolean networks: regulations and update functions.                      *)

\* FnUpdate, as tagged tuples; NoFunction is a variable without an update
\* function (an implicit, fully parametric one).
Const(b) == <<"const", b>>

Var(id) == <<"var", id>>

Not(f) == <<"not", f>>

And(l, r) == <<"and", l, r>>

Or(l, r) == <<"or", l, r>>

Param(p, args) == <<"param", p, args>>

NoFunction == <<"none">>

\* struct Regulation; monotonicity is "None", "Activation" or "Inhibition".
Regulation(u, t, m, o) == [regulator |-> u, target |-> t, monotonicity |-> m, observable |-> o]

\* bn.get_update_function(v)
get_update_function(bn, v) == bn.update_functions[v]

\* bn.graph.regulators(target): sorted by id.
NetRegulators(bn, target) ==
    SortedSeq({bn.regulations[i].regulator :
                  i \in {j \in DOMAIN bn.regulations : bn.regulations[j].target = target}})

\* The state bit of variable i (IdState::get_bit).
Bit(state, i) == (state \div (2 ^ i)) % 2

\* IdState::flip_bit
flip_bit(state, i) == IF Bit(state, i) = 1 THEN state - 2 ^ i ELSE state + 2 ^ i

RECURSIVE ExtendLoop(_, _, _, _)
\* for i in 0..args.len(): if (table_index >> i) & 1 == 1 { state |= 1 << args[i] }
ExtendLoop(table_index, args, i, state) ==
    IF i >= Len(args) THEN state
    ELSE ExtendLoop(table_index, args, i + 1,
             IF Bit(table_index, i) = 1 /\ Bit(state, args[i + 1]) = 0
             THEN state + 2 ^ args[i + 1]
             ELSE state)

\* Mutant of extend_table_index_to_state: the row index is taken as the state.
extend_table_index_unmoved(table_index, args) == table_index

extend_table_index_to_state(table_index, args) == ExtendLoop(table_index, args, 0, 0)

\* next_index & self.mask, for a mask with a single bit set.
MaskOf(index, mask) == ((index \div mask) % 2) * mask

\* InputStatesPairIterator: new() and every item next() yields, in order.
InputStatesPairs(bn, regulation) ==
    LET regulators      == NetRegulators(bn, regulation.target)
        regulator_index == (CHOOSE i \in DOMAIN regulators : regulators[i] = regulation.regulator) - 1
        table_size      == 2 ^ Len(regulators)
        mask            == 2 ^ regulator_index
        inactive        == SelectSeq([i \in 1 .. table_size |-> i - 1],
                                     LAMBDA next_index : MaskOf(next_index, mask) = 0)
    IN  [j \in DOMAIN inactive |->
            LET state == extend_table_index_to_state(inactive[j], regulators)
            IN  <<state, flip_bit(state, regulation.regulator)>>]

----------------------------------------------------------------------------
(* The parameter encoder (section 6.2 of the specification): one Bdd        *)
(* variable per row of every implicit function table and of every explicit *)
(* parameter.                                                               *)

RECURSIVE TableIndex(_, _)
\* The row of a function table selected by a state: bit j of the row is the
\* state bit of the j-th argument.
TableIndex(state, args) ==
    IF args = <<>> THEN 0
    ELSE Bit(state, args[1]) + 2 * TableIndex(state, Tail(args))

\* encoder.get_implicit(state, variable)
get_implicit(bn, state, variable) ==
    [table |-> "implicit", of |-> variable, row |-> TableIndex(state, NetRegulators(bn, variable))]

\* encoder.get_explicit(state, parameter, args)
get_explicit(state, p, args) ==
    [table |-> "explicit", of |-> p, row |-> TableIndex(state, args)]

RECURSIVE ParamsOf(_)
\* The explicit parameters of an update function, each with its argument list.
ParamsOf(fun) ==
    CASE fun[1] = "param" -> {<<fun[2], fun[3]>>}
      [] fun[1] = "not" -> ParamsOf(fun[2])
      [] fun[1] \in {"and", "or"} -> ParamsOf(fun[2]) \cup ParamsOf(fun[3])
      [] OTHER -> {}

NetVariables(bn) == 0 .. (bn.n - 1)

\* The rows of the implicit function tables.
ImplicitBits(bn) ==
    UNION {{[table |-> "implicit", of |-> v, row |-> r] :
               r \in 0 .. (2 ^ Len(NetRegulators(bn, v)) - 1)} :
           v \in {x \in NetVariables(bn) : get_update_function(bn, x) = NoFunction}}

\* The rows of the explicit parameters.
ExplicitBits(bn) ==
    UNION {{[table |-> "explicit", of |-> p[1], row |-> r] : r \in 0 .. (2 ^ Len(p[2]) - 1)} :
           p \in UNION {ParamsOf(get_update_function(bn, v)) : v \in NetVariables(bn)}}

\* encoder.bdd_variables: all parameter bits of the network.
BddVariables(bn) == ImplicitBits(bn) \cup ExplicitBits(bn)

\* encoder.bdd_variables.mk_true(): every valuation of the parameter bits.
mk_true(bn) == SUBSET BddVariables(bn)

RECURSIVE symbolic_eval(_, _, _)
\* fun._symbolic_eval(state, encoder), read at the valuation v.
symbolic_eval(fun, state, v) ==
    CASE fun[1] = "const" -> fun[2]
      [] fun[1] = "var" -> Bit(state, fun[2]) = 1
      [] fun[1] = "not" -> ~symbolic_eval(fun[2], state, v)
      [] fun[1] = "and" -> symbolic_eval(fun[2], state, v) /\ symbolic_eval(fun[3], state, v)
      [] fun[1] = "or" -> symbolic_eval(fun[2], state, v) \/ symbolic_eval(fun[3], state, v)
      [] fun[1] = "param" -> get_explicit(state, fun[2], fun[3]) \in v

----------------------------------------------------------------------------
(* build_static_constraints.  Every Bdd-valued function is modelled by the  *)
(* value its Bdd takes at a valuation v of the parameter bits.              *)

\* Ctx::pair_implicit for every pair of the iterator: the two Bdd variables
\* (inactive, active) of each pair.
implicit_pairs(bn, regulation) ==
    LET pairs == InputStatesPairs(bn, regulation)
    IN  [j \in DOMAIN pairs |-> <<get_implicit(bn, pairs[j][1], regulation.target),
                                  get_implicit(bn, pairs[j][2], regulation.target)>>]

\* Mutant of pair_explicit: the two states of the pair are swapped.
pair_explicit_swapped(states, fun, v) ==
    <<symbolic_eval(fun, states[2], v), symbolic_eval(fun, states[1], v)>>

\* Ctx::pair_explicit
pair_explicit(states, fun, v) ==
    <<symbolic_eval(fun, states[1], v), symbolic_eval(fun, states[2], v)>>

\* Mutant of build_monotonicity_pair: both directions read as activation.
build_monotonicity_pair_same(inactive, active, monotonicity) == inactive => active

\* Mutant of build_monotonicity_pair: equivalence in place of implication.
build_monotonicity_pair_iff(inactive, active, monotonicity) == inactive <=> active

build_monotonicity_pair(inactive, active, monotonicity) ==
    CASE monotonicity = "Activation" -> (inactive => active)
      [] monotonicity = "Inhibition" -> (active => inactive)

\* `pairs`: implicit_pairs(bn, regulation).
build_monotonicity_implicit(pairs, regulation, v) ==
    \A j \in DOMAIN pairs :
        build_monotonicity_pair(pairs[j][1] \in v, pairs[j][2] \in v, regulation.monotonicity)

\* Mutant of build_observability_implicit: the disjunction starts from true.
build_observability_implicit_true(pairs, regulation, v) == TRUE

\* Mutant of build_observability_implicit: every pair must differ.
build_observability_implicit_all(pairs, regulation, v) ==
    \A j \in DOMAIN pairs : ~((pairs[j][1] \in v) <=> (pairs[j][2] \in v))

build_observability_implicit(pairs, regulation, v) ==
    \E j \in DOMAIN pairs : ~((pairs[j][1] \in v) <=> (pairs[j][2] \in v))

\* `states`: InputStatesPairs(bn, regulation).
build_monotonicity_explicit(states, regulation, update_function, v) ==
    \A j \in DOMAIN states :
        LET p == pair_explicit(states[j], update_function, v)
        IN  build_monotonicity_pair(p[1], p[2], regulation.monotonicity)

\* Mutant of build_observability_explicit: the disjunction starts from true.
build_observability_explicit_true(states, regulation, update_function, v) == TRUE

build_observability_explicit(states, regulation, update_function, v) ==
    \E j \in DOMAIN states :
        LET p == pair_explicit(states[j], update_function, v)
        IN  ~(p[1] <=> p[2])

\* Mutant of ApplyRegulation: observability is conjoined only for a
\* regulation without a declared sign.
ApplyRegulationElseIf(bn, r, cond) ==
    LET fun    == get_update_function(bn, r.target)
        states == InputStatesPairs(bn, r)
        pairs  == implicit_pairs(bn, r)
    IN  IF fun # NoFunction
        THEN {v \in cond :
                IF r.monotonicity # "None"
                THEN build_monotonicity_explicit(states, r, fun, v)
                ELSE r.observable => build_observability_explicit(states, r, fun, v)}
        ELSE {v \in cond :
                IF r.monotonicity # "None"
                THEN build_monotonicity_implicit(pairs, r, v)
                ELSE r.observable => build_observability_implicit(pairs, r, v)}

\* The body of `for r in &bn.graph.regulations`: the valuations of
\* `cond` that satisfy the constraints conjoined for r.
ApplyRegulation(bn, r, cond) ==
    LET fun    == get_update_function(bn, r.target)
        states == InputStatesPairs(bn, r)
        pairs  == implicit_pairs(bn, r)
    IN  IF fun # NoFunction
        THEN {v \in cond :
                /\ r.monotonicity # "None" => build_monotonicity_explicit(states, r, fun, v)
                /\ r.observable => build_observability_explicit(states, r, fun, v)}
        ELSE {v \in cond :
                /\ r.monotonicity # "None" => build_monotonicity_implicit(pairs, r, v)
                /\ r.observable => build_observability_implicit(pairs, r, v)}

\* let mut condition = encoder.bdd_variables.mk_true();
CompileStart ==
    /\ pc = "start"
    /\ condition' = mk_true(network)
    /\ reg_index' = 1
    /\ pc' = "loop"
    /\ UNCHANGED <<network, graph, fvsVars, solverVars, ret, result, signVars, asyncVars>>

\* One iteration of the loop over bn.graph.regulations.
CompileRegulation ==
    /\ pc = "loop"
    /\ reg_index <= Len(network.regulations)
    /\ condition' = ApplyRegulation(network, network.regulations[reg_index], condition)
    /\ reg_index' = reg_index + 1
    /\ UNCHANGED <<pc, network, graph, fvsVars, solverVars, ret, result, signVars, asyncVars>>

\* return condition;
CompileReturn ==
    /\ pc = "loop"
    /\ reg_index > Len(network.regulations)
    /\ result' = condition
    /\ ret' = "condition"
    /\ pc' = "done"
    /\ UNCHANGED <<network, reg_index, condition, graph, fvsVars, solverVars, signVars, asyncVars>>

NextCompile == CompileStart \/ CompileRegulation \/ CompileReturn

----------------------------------------------------------------------------
(* The networks the compiler is run on.                                     *)

\* The flags of a regulation arrow: -> -| -? ->? -|? -??
Flags == {[mono |-> m, obs |-> o] : m \in {"None", "Activation", "Inhibition"}, o \in BOOLEAN}

\* The ids of m regulators: after the target (id 0) or before it (id m).
RegIds(m, tfirst) == [j \in 1 .. m |-> IF tfirst THEN j ELSE j - 1]

\* One target with m regulators; `fun` is the update function of the
\* target, the regulators are inputs with `$x: true` (fixed) or without an
\* update function.
Network(m, tfirst, flags, fun, fixed) ==
    LET t   == IF tfirst THEN 0 ELSE m
        ids == RegIds(m, tfirst)
    IN  [n |-> m + 1,
         regulations |-> [j \in 1 .. m |-> Regulation(ids[j], t, flags[j].mono, flags[j].obs)],
         update_functions |-> [x \in 0 .. m |->
             IF x = t THEN fun ELSE IF fixed THEN Const(TRUE) ELSE NoFunction]]

\* Update functions over the regulators `ids`, with and without parameters.
ExplicitFunctions(ids) ==
    LET a == ids[1]
        b == ids[Len(ids)]
    IN  {Var(a), Not(Var(a)), Var(b), Const(TRUE),
         And(Var(a), Var(b)), Or(Var(a), Not(Var(b))),
         Param(0, <<a>>), And(Param(0, <<a>>), Var(b)), Or(Var(a), Param(0, <<>>)),
         Param(0, ids)}

\* Every network of one target with up to MaxRegs regulators: any flags, the
\* function of the target implicit or explicit; the inputs have `$x: true`,
\* and a single input may also be left without an update function.
Networks ==
    UNION {{Network(m, tf, fl, fun, fx) :
               fl \in [1 .. m -> Flags],
               fun \in {NoFunction} \cup ExplicitFunctions(RegIds(m, tf)),
               fx \in IF m = 1 THEN BOOLEAN ELSE {TRUE}} :
           m \in 1 .. MaxRegs, tf \in BOOLEAN}

\* The target of a network of the family: the target of its regulations.
Target(bn) == bn.regulations[1].target

\* The flags of the regulations, in the order of the regulations.
FlagsOf(bn) ==
    [j \in DOMAIN bn.regulations |->
        [mono |-> bn.regulations[j].monotonicity, obs |-> bn.regulations[j].observable]]

InitCompile ==
    /\ IdleGraph
    /\ Idle
    /\ IdleSign
    /\ IdleAsync
    /\ network \in Networks
    /\ reg_index = 0
    /\ condition = {}

SpecCompile == InitCompile /\ [][NextCompile]_vars

\* The networks of test_monotonicity_2/3/4 and their kin: an implicit target
\* with up to TestRegs signed regulators, `$x: true` for every input, all
\* regulations observable or none.
SignedNetworks ==
    UNION {{Network(m, FALSE, [j \in 1 .. m |-> [mono |-> sg[j], obs |-> ob]], NoFunction, TRUE) :
               sg \in [1 .. m -> {"Activation", "Inhibition"}], ob \in BOOLEAN} :
           m \in 1 .. TestRegs}

InitMonotone ==
    /\ IdleGraph
    /\ Idle
    /\ IdleSign
    /\ IdleAsync
    /\ network \in SignedNetworks
    /\ reg_index = 0
    /\ condition = {}

SpecMonotone == InitMonotone /\ [][NextCompile]_vars

----------------------------------------------------------------------------
(* SymbolicAsyncGraph::new.  A coloured vertex set is a set of pairs        *)
(* <<state, colour>>: bit i of the state is the value of variable i, the    *)
(* colour is a valuation of the parameter bits.                             *)

\* All states of the network.
States(bn) == 0 .. (2 ^ bn.n - 1)

\* The outcome of apply_regulation_constraints(..)?: an error for a predicate
\* without a valuation (tests::test_invalid_function), the predicate otherwise.
apply_regulation_constraints(cond) == IF cond = {} THEN "Err" ELSE "Ok"

\* context.mk_fn_update_true(fun), resp. mk_implicit_function_is_true, read
\* at the pair <<state, colour>>.
function_is_one(bn, variable, state, colour) ==
    IF get_update_function(bn, variable) # NoFunction
    THEN symbolic_eval(get_update_function(bn, variable), state, colour)
    ELSE get_implicit(bn, state, variable) \in colour

\* Mutant of update_function: the variable is tested for one, not for zero.
update_function_is_one(bn, variable, state, colour) ==
    (Bit(state, variable) = 1) <=> function_is_one(bn, variable, state, colour)

\* update_functions[variable]: bdd!(variable_is_zero <=> function_is_one),
\* the pairs at which the variable changes its value.
update_function(bn, variable, state, colour) ==
    (Bit(state, variable) = 0) <=> function_is_one(bn, variable, state, colour)

\* SymbolicAsyncGraph::new once the constraints are compiled: the error is
\* passed on, or the graph is built with unit_bdd over states and colours.
NewReturn ==
    /\ pc = "done"
    /\ ret = "condition"
    /\ ret' = apply_regulation_constraints(result)
    /\ IF apply_regulation_constraints(result) = "Err"
       THEN unit_bdd' = {} /\ update_functions' = <<>> /\ pc' = "error"
       ELSE /\ unit_bdd' = States(network) \X result
            /\ update_functions' =
                  [variable \in NetVariables(network) |->
                      {p \in States(network) \X mk_true(network) :
                          update_function(network, variable, p[1], p[2])}]
            /\ pc' = "graph"
    /\ UNCHANGED <<graph, fvsVars, solverVars, result, signVars, netVars, arg, basin>>

NextNew == NextCompile \/ NewReturn

SpecNew == InitCompile /\ [][NextNew]_vars

----------------------------------------------------------------------------
(* forward_closed (bin/fixed_points.rs).                                    *)

\* graph.var_can_post_out(var, set): the pairs of `set` whose update of var
\* leaves `set` (var_pre(var, var_post(var, set) \ set) /\ set).
var_can_post_out(bn, var, set) ==
    {p \in set : /\ p \in update_functions[var]
                 /\ <<flip_bit(p[1], var), p[2]>> \notin set}

\* graph.as_network().variables().rev()
VariablesRev(bn) == [i \in 1 .. bn.n |-> bn.n - i]

RECURSIVE CanGoOutFrom(_, _, _)
\* The for loop from position i of the reversed order on: can_go_out of the
\* first variable for which it is not empty; empty when there is none.
CanGoOutFrom(bn, set, i) ==
    IF i > bn.n THEN {}
    ELSE IF \E p \in var_can_post_out(bn, VariablesRev(bn)[i], set) : TRUE
         THEN var_can_post_out(bn, VariablesRev(bn)[i], set)
         ELSE CanGoOutFrom(bn, set, i + 1)

\* Mutant of CanGoOut: only the first variable of the reversed order is tried.
CanGoOutFirstOnly(bn, set) ==
    IF bn.n = 0 THEN {} ELSE var_can_post_out(bn, VariablesRev(bn)[1], set)

\* The for loop of one iteration of `loop`.
CanGoOut(bn, set) == CanGoOutFrom(bn, set, 1)

\* let mut basin = initial.clone();
ForwardStart(initial) ==
    /\ pc = "graph"
    /\ arg' = initial
    /\ basin' = initial
    /\ pc' = "forward"
    /\ UNCHANGED <<graph, fvsVars, solverVars, ret, result, signVars, netVars, unit_bdd, update_functions>>

\* An iteration of `loop` that finds a variable to leave by: basin =
\* basin.minus(&can_go_out); stop = false; break.
ForwardNarrow ==
    /\ pc = "forward"
    /\ \E can_go_out \in {CanGoOut(network, basin)} :
          /\ can_go_out # {}
          /\ basin' = basin \ can_go_out
    /\ UNCHANGED <<pc, graph, fvsVars, solverVars, ret, result, signVars, netVars, unit_bdd, update_functions, arg>>

\* An iteration of `loop` that finds none: if stop { return basin; }
ForwardReturn ==
    /\ pc = "forward"
    /\ CanGoOut(network, basin) = {}
    /\ result' = basin
    /\ ret' = "basin"
    /\ pc' = "closed"
    /\ UNCHANGED <<graph, fvsVars, solverVars, signVars, netVars, asyncVars>>

----------------------------------------------------------------------------
(* SymbolicAsyncGraph::vertex.                                              *)

\* Bdd::select: the pairs of the Bdd in which every listed state variable
\* has the listed value.
Select(bdd, partial_valuation) ==
    {p \in bdd : \A j \in DOMAIN partial_valuation :
                    (Bit(p[1], partial_valuation[j][1]) = 1) <=> partial_valuation[j][2]}

\* Mutant of PartialValuation: the enumeration pairs value i with
\* state variable i + 1, the last value with none.
PartialValuationShifted(state) ==
    [j \in 1 .. (Len(state) - 1) |-> <<j, state[j]>>]

\* state.values().into_iter().enumerate().map(|(i, v)| (state_variables[i], v))
PartialValuation(state) ==
    [j \in DOMAIN state |-> <<j - 1, state[j]>>]

\* vertex(&self, state): `state` is the vector of the values of the variables.
Vertex(state) ==
    /\ pc = "graph"
    /\ arg' = state
    /\ result' = Select(unit_bdd, PartialValuation(state))
    /\ ret' = "vertex"
    /\ pc' = "vertex"
    /\ UNCHANGED <<graph, fvsVars, solverVars, signVars, netVars, unit_bdd, update_functions, basin>>

----------------------------------------------------------------------------
(* The networks an asynchronous graph is built of, and the sets             *)
(* forward_closed is called with.                                           *)

\* The sets forward_closed is called with differ from the unit set, or from
\* the empty set, in up to MaxHoles pairs.
MaxHoles == 3

Arrow(u, arrow, t) ==
    CASE arrow = "->" -> Regulation(u, t, "Activation", TRUE)
      [] arrow = "-|" -> Regulation(u, t, "Inhibition", TRUE)
      [] arrow = "-?" -> Regulation(u, t, "None", TRUE)
      [] arrow = "->?" -> Regulation(u, t, "Activation", FALSE)
      [] arrow = "-|?" -> Regulation(u, t, "Inhibition", FALSE)
      [] arrow = "-??" -> Regulation(u, t, "None", FALSE)

\* A network of n variables without declared update functions.
ImplicitNetwork(n, regulations) ==
    [n |-> n, regulations |-> regulations, update_functions |-> [x \in 0 .. (n - 1) |-> NoFunction]]

\* a -> b, b -| a
NegativeLoop == ImplicitNetwork(2, <<Arrow(0, "->", 1), Arrow(1, "-|", 0)>>)

\* a -> b, b -> a
PositiveLoop == ImplicitNetwork(2, <<Arrow(0, "->", 1), Arrow(1, "->", 0)>>)

\* a ->? b, b -| a
LooseLoop == ImplicitNetwork(2, <<Arrow(0, "->?", 1), Arrow(1, "-|", 0)>>)

\* a -?? a
SelfRegulation == ImplicitNetwork(1, <<Arrow(0, "-??", 0)>>)

\* a -> b, b -> c, c -| a
ThreeRing == ImplicitNetwork(3, <<Arrow(0, "->", 1), Arrow(1, "->", 2), Arrow(2, "-|", 0)>>)

\* a -> t, no update function for a
FreeInput == Network(1, FALSE, <<[mono |-> "Activation", obs |-> TRUE]>>, NoFunction, FALSE)

\* a -?? t with $t: a | p and $a: true
ExplicitParameter ==
    Network(1, FALSE, <<[mono |-> "None", obs |-> FALSE]>>, Or(Var(0), Param(0, <<>>)), TRUE)

\* a -> t, b -| t with $t: b: no graph is built of it.
InvalidNetwork ==
    Network(2, FALSE, <<[mono |-> "Activation", obs |-> TRUE], [mono |-> "Inhibition", obs |-> TRUE]>>,
            Var(1), TRUE)

GraphNetworks ==
    {NegativeLoop, PositiveLoop, LooseLoop, SelfRegulation, ThreeRing, FreeInput,
     ExplicitParameter, InvalidNetwork}

RECURSIVE SubsetsUpTo(_, _)
\* The subsets of S of at most size elements.
SubsetsUpTo(S, size) ==
    IF size = 0 THEN {{}}
    ELSE LET smaller == SubsetsUpTo(S, size - 1)
         IN  smaller \cup {t \cup {x} : t \in smaller, x \in S}

InitialSets(unit) ==
    LET holes == SubsetsUpTo(unit, MaxHoles)
    IN  holes \cup {unit \ h : h \in holes}

\* All vectors of values of the n variables.
BitVectors(n) == [1 .. n -> BOOLEAN]

InitGraph ==
    /\ IdleGraph
    /\ Idle
    /\ IdleSign
    /\ IdleAsync
    /\ network \in GraphNetworks
    /\ reg_index = 0
    /\ condition = {}

NextGraph ==
    \/ NextNew
    \/ pc = "graph" /\ \E state \in BitVectors(network.n) : Vertex(state)
    \/ pc = "graph" /\ \E initial \in InitialSets(unit_bdd) : ForwardStart(initial)
    \/ ForwardNarrow
    \/ ForwardReturn

SpecGraph == InitGraph /\ [][NextGraph]_vars

\* An iteration of the loop of forward_closed is never put off for ever.
SpecGraphFair == SpecGraph /\ WF_vars(ForwardNarrow) /\ WF_vars(ForwardReturn)

----------------------------------------------------------------------------
(* InputStatesPairIterator, call by call.  `arg` holds the iterator (the   *)
(* next index of its range, the end of the range, mask, regulators,         *)
(* variable), `result` the items yielded so far.                            *)

\* Mutant of regulator_mask: the variable id in place of the position.
regulator_mask_by_id(regulators, regulator) == 2 ^ regulator

\* let mask = 1 << regulator_index, with regulator_index the position of the
\* regulator among the regulators of the target.
regulator_mask(regulators, regulator) ==
    2 ^ ((CHOOSE i \in DOMAIN regulators : regulators[i] = regulator) - 1)

\* InputStatesPairIterator::new(bn, regulation)
IteratorNew ==
    /\ pc = "start"
    /\ \E regulation \in {network.regulations[reg_index]} :
        \E regulators \in {NetRegulators(network, regulation.target)} :
            arg' = [range |-> 0,
                    end |-> 2 ^ Len(regulators),
                    mask |-> regulator_mask(regulators, regulation.regulator),
                    regulators |-> regulators,
                    variable |-> regulation.regulator]
    /\ result' = <<>>
    /\ pc' = "iterate"
    /\ UNCHANGED <<graph, fvsVars, solverVars, ret, signVars, netVars, unit_bdd, update_functions, basin>>

\* The indices left in the range that next() does not skip.
InactiveLeft(self) == {i \in self.range .. (self.end - 1) : MaskOf(i, self.mask) = 0}

\* next() that returns Some((state, state.flip_bit(self.variable.0)))
IteratorNextSome ==
    /\ pc = "iterate"
    /\ InactiveLeft(arg) # {}
    /\ \E next_index \in {Min(InactiveLeft(arg))} :
        \E state \in {extend_table_index_to_state(next_index, arg.regulators)} :
            /\ result' = Append(result, <<state, flip_bit(state, arg.variable)>>)
            /\ arg' = [arg EXCEPT !.range = next_index + 1]
    /\ UNCHANGED <<pc, graph, fvsVars, solverVars, ret, signVars, netVars, unit_bdd, update_functions, basin>>

\* next() that exhausts the range and returns None
IteratorNextNone ==
    /\ pc = "iterate"
    /\ InactiveLeft(arg) = {}
    /\ arg' = [arg EXCEPT !.range = arg.end]
    /\ ret' = "None"
    /\ pc' = "done"
    /\ UNCHANGED <<graph, fvsVars, solverVars, result, signVars, netVars, unit_bdd, update_functions, basin>>

\* A target t among n variables with the regulators R, in ascending order.
FanIn(n, t, R) ==
    [n |-> n,
     regulations |-> [j \in 1 .. Cardinality(R) |-> Regulation(SortedSeq(R)[j], t, "None", FALSE)],
     update_functions |-> [x \in 0 .. (n - 1) |-> NoFunction]]

\* Every such network of up to MaxRegs + 1 variables: the target anywhere
\* among its regulators, itself a regulator or not.
IteratorNetworks ==
    UNION {{FanIn(n, t, R) : t \in 0 .. (n - 1), R \in (SUBSET (0 .. (n - 1))) \ {{}}} :
           n \in 1 .. (MaxRegs + 1)}

InitIterator ==
    /\ IdleGraph
    /\ Idle
    /\ IdleSign
    /\ IdleAsync
    /\ network \in IteratorNetworks
    /\ reg_index \in DOMAIN network.regulations
    /\ condition = {}

NextIterator == IteratorNew \/ IteratorNextSome \/ IteratorNextNone

SpecIterator == InitIterator /\ [][NextIterator]_vars

----------------------------------------------------------------------------
(* extend_table_index_to_state on its own.  `arg` holds the two arguments.  *)

\* The greatest variable id of an argument list (6 in the documented examples).
MaxVarId == 6

\* The greatest length of an argument list (4 in the documented examples).
MaxArgs == 4

\* The lists of up to MaxArgs distinct variable ids, in any order.
ArgLists ==
    UNION {{a \in [1 .. m -> 0 .. MaxVarId] : \A i, j \in 1 .. m : i # j => a[i] # a[j]} :
           m \in 0 .. MaxArgs}

ExtendCall ==
    /\ pc = "start"
    /\ result' = extend_table_index_to_state(arg.table_index, arg.args)
    /\ ret' = "state"
    /\ pc' = "extended"
    /\ UNCHANGED <<graph, fvsVars, solverVars, signVars, netVars, asyncVars>>

InitExtend ==
    /\ IdleGraph
    /\ Idle
    /\ IdleSign
    /\ IdleNet
    /\ unit_bdd = {}
    /\ update_functions = <<>>
    /\ basin = {}
    /\ \E args \in ArgLists : \E table_index \in 0 .. (2 ^ Len(args) - 1) :
          arg = [table_index |-> table_index, args |-> args]

NextExtend == ExtendCall

SpecExtend == InitExtend /\ [][NextExtend]_vars

----------------------------------------------------------------------------
(* MyContext of bin/fixed_points.rs: update functions evaluated over the    *)
(* three-valued sort {0, 1, *}. A term of the sort is modelled by the       *)
(* enumeration constant it denotes.                                         *)

\* The number of network variables of an evaluated function.
EvalVars == 2

\* The greatest number of operators (Not, And, Or) of an evaluated function.
MaxOps == 2

mk_zero == "0"

mk_one == "1"

mk_star == "*"

\* The enumeration sort "ebool".
e_bool == {mk_zero, mk_one, mk_star}

\* a if the test holds, else b (z3 `ite`).
ite(test, a, b) == IF test THEN a ELSE b

e_bool_and(left, right) ==
    LET left_is_zero == left = mk_zero
        right_is_zero == right = mk_zero
        left_is_one == left = mk_one
        right_is_one == right = mk_one
        left_and_right_is_zero == left_is_zero /\ right_is_zero
        left_or_right_is_one == left_is_one \/ right_is_one
        x == ite(left_and_right_is_zero, mk_zero, mk_star)
    IN  ite(left_or_right_is_one, mk_one, x)

e_bool_or(left, right) ==
    LET left_is_zero == left = mk_zero
        right_is_zero == right = mk_zero
        left_is_one == left = mk_one
        right_is_one == right = mk_one
        left_or_right_is_zero == left_is_zero \/ right_is_zero
        left_and_right_is_one == left_is_one /\ right_is_one
        x == ite(left_and_right_is_one, mk_one, mk_star)
    IN  ite(left_or_right_is_zero, mk_zero, x)

e_bool_not(inner) ==
    LET is_zero == inner = mk_zero
        is_one == inner = mk_one
    IN  ite(is_zero, mk_one, ite(is_one, mk_zero, mk_star))

RECURSIVE eval_with(_, _)
\* FnUpdate::Param and the other binary operators are unimplemented!(); the
\* functions evaluated here have neither.
eval_with(update, valuation) ==
    CASE update[1] = "const" -> IF update[2] THEN mk_one ELSE mk_zero
      [] update[1] = "var" -> valuation[update[2]]
      [] update[1] = "not" -> e_bool_not(eval_with(update[2], valuation))
      [] update[1] = "and" ->
            e_bool_and(eval_with(update[2], valuation), eval_with(update[3], valuation))
      [] update[1] = "or" ->
            e_bool_or(eval_with(update[2], valuation), eval_with(update[3], valuation))

RECURSIVE UpdatesOf(_)
\* The parameter-free update functions with exactly `ops` operators.
UpdatesOf(ops) ==
    IF ops = 0
    THEN {Const(b) : b \in BOOLEAN} \cup {Var(id) : id \in 0 .. (EvalVars - 1)}
    ELSE {Not(f) : f \in UpdatesOf(ops - 1)}
         \cup UNION {{And(l, r) : l \in UpdatesOf(i), r \in UpdatesOf(ops - 1 - i)} :
                     i \in 0 .. (ops - 1)}
         \cup UNION {{Or(l, r) : l \in UpdatesOf(i), r \in UpdatesOf(ops - 1 - i)} :
                     i \in 0 .. (ops - 1)}

Updates == UNION {UpdatesOf(ops) : ops \in 0 .. MaxOps}

\* The variables an update function reads.
RECURSIVE Support(_)
Support(update) ==
    CASE update[1] = "const" -> {}
      [] update[1] = "var" -> {update[2]}
      [] update[1] = "not" -> Support(update[2])
      [] update[1] \in {"and", "or"} -> Support(update[2]) \cup Support(update[3])

EvalCall ==
    /\ pc = "start"
    /\ result' = eval_with(arg.update, arg.valuation)
    /\ ret' = "term"
    /\ pc' = "evaluated"
    /\ UNCHANGED <<graph, fvsVars, solverVars, signVars, netVars, asyncVars>>

InitEval ==
    /\ IdleGraph
    /\ Idle
    /\ IdleSign
    /\ IdleNet
    /\ unit_bdd = {}
    /\ update_functions = <<>>
    /\ basin = {}
    /\ \E update \in Updates : \E valuation \in [0 .. (EvalVars - 1) -> e_bool] :
          arg = [update |-> update, valuation |-> valuation]

NextEval == EvalCall

SpecEval == InitEval /\ [][NextEval]_vars

----------------------------------------------------------------------------
(* Reference semantics of a valuation (not taken from the compiler): the    *)
(* update function a valuation induces, read over assignments of Boolean    *)
(* values to the network variables.                                         *)

RECURSIVE RefRow(_, _, _)
\* The table row of the argument values: argument j weighs 2^(j-1).
RefRow(asg, args, j) ==
    IF j > Len(args) THEN 0
    ELSE (IF asg[args[j]] THEN 2 ^ (j - 1) ELSE 0) + RefRow(asg, args, j + 1)

RECURSIVE RefEval(_, _, _)
RefEval(fun, asg, v) ==
    CASE fun[1] = "const" -> fun[2]
      [] fun[1] = "var" -> asg[fun[2]]
      [] fun[1] = "not" -> ~RefEval(fun[2], asg, v)
      [] fun[1] = "and" -> RefEval(fun[2], asg, v) /\ RefEval(fun[3], asg, v)
      [] fun[1] = "or" -> RefEval(fun[2], asg, v) \/ RefEval(fun[3], asg, v)
      [] fun[1] = "param" ->
            [table |-> "explicit", of |-> fun[2], row |-> RefRow(asg, fun[3], 1)] \in v

\* The value of the update function of t that v induces, at asg; `regs`
\* are the regulators of t.
Induced(bn, t, regs, asg, v) ==
    IF get_update_function(bn, t) = NoFunction
    THEN [table |-> "implicit", of |-> t, row |-> RefRow(asg, regs, 1)] \in v
    ELSE RefEval(get_update_function(bn, t), asg, v)

\* The input pairs <<x_off, x_on>> of a regulation: the assignments to the
\* regulators of its target that differ in its regulator only.
InputPairs(bn, r) ==
    {<<off, [off EXCEPT ![r.regulator] = TRUE]>> :
        off \in {asg \in [Range(NetRegulators(bn, r.target)) -> BOOLEAN] : ~asg[r.regulator]}}

AllInputPairs(bn) == [j \in DOMAIN bn.regulations |-> InputPairs(bn, bn.regulations[j])]

\* f(x_off) => f(x_on), resp. f(x_on) => f(x_off), for every input pair.
MonotoneOk(bn, r, regs, pairs, v) ==
    \A p \in pairs :
        \A f_off \in {Induced(bn, r.target, regs, p[1], v)},
           f_on \in {Induced(bn, r.target, regs, p[2], v)} :
            IF r.monotonicity = "Activation" THEN f_off => f_on ELSE f_on => f_off

\* f(x_off) # f(x_on) for at least one input pair.
ObservableOk(bn, r, regs, pairs, v) ==
    \E p \in pairs :
        Induced(bn, r.target, regs, p[1], v) # Induced(bn, r.target, regs, p[2], v)

\* `regs`: the regulators of the target; `pairs`: AllInputPairs(bn).
Admissible(bn, regs, pairs, v) ==
    \A j \in DOMAIN bn.regulations :
        LET r == bn.regulations[j]
        IN  /\ r.monotonicity # "None" => MonotoneOk(bn, r, regs, pairs[j], v)
            /\ r.observable => ObservableOk(bn, r, regs, pairs[j], v)

\* The Boolean functions of m arguments that satisfy the flags fl[1..m].
FunctionsSatisfying(m, fl) ==
    {f \in [[1 .. m -> BOOLEAN] -> BOOLEAN] :
        \A j \in 1 .. m :
            LET offs == {x \in [1 .. m -> BOOLEAN] : ~x[j]}
            IN  /\ fl[j].mono = "Activation" =>
                      \A x \in offs : f[x] => f[[x EXCEPT ![j] = TRUE]]
                /\ fl[j].mono = "Inhibition" =>
                      \A x \in offs : f[[x EXCEPT ![j] = TRUE]] => f[x]
                /\ fl[j].obs => \E x \in offs : f[x] # f[[x EXCEPT ![j] = TRUE]]}

\* The parametrisations of t in a predicate: its valuations, restricted to
\* the rows of the implicit table of t.
Parametrisations(bn, t, cond) ==
    LET table == {b \in ImplicitBits(bn) : b.of = t}
    IN  {v \cap table : v \in cond}

\* build_static_constraints has returned.
Compiled == pc = "done" /\ ret = "condition"

ImplicitTarget == get_update_function(network, Target(network)) = NoFunction


----------------------------------------------------------------------------
(* Claims about the exact feedback vertex set.                              *)

\* C1: the set returned by exact_fvs is a feedback vertex set: the graph
\* without it has no cycle (self-loops included), on every return path.
C1_ExactFvsFeasible == pc = "done" => IsFVS(graph, result)

\* C1 witness: a candidate found by the inner loop was returned for a cyclic graph.
C1_Witness == pc = "done" /\ ret = "feasible" /\ result # {} /\ HasCycle(graph, Variables(graph))

\* C2: no feedback vertex set of the graph is smaller than the set returned
\* by exact_fvs; two disjoint 2-cycles give size 2 and a single self-loop {a}.
C2_ExactFvsMinimal ==
    pc = "done" =>
        /\ \A X \in SUBSET Variables(graph) : IsFVS(graph, X) => Cardinality(X) >= Cardinality(result)
        /\ graph = DisjointCycles => Cardinality(result) = 2
        /\ graph = SelfLoop => result = {0}

\* C2 witness: the search returned a set smaller than the greedy upper bound,
\* with part of the variables left out of the candidate pool.
C2_Witness ==
    /\ pc = "done"
    /\ ret = "feasible"
    /\ Cardinality(result) < Cardinality(upper_bound)
    /\ Len(candidate_variables) < Cardinality({v \in Variables(graph) : OnCycle(graph, Variables(graph), v)})

\* C3: exact_fvs_solver returns a feedback vertex set of minimum cardinality,
\* the empty set when the graph has no cycle, and never runs past the number
\* of variables.
C3_SolverCorrectMinimal ==
    /\ pc # "diverged"
    /\ pc = "done" =>
          /\ IsFVS(graph, result)
          /\ Cardinality(result) = MinFvsSize(graph)
          /\ ~HasCycle(graph, Variables(graph)) => result = {}

\* C3 witness: a candidate was returned after a cycle clause was learned and
\* the target size was increased.
C3_Witness ==
    /\ pc = "done"
    /\ ret = "feasible"
    /\ \E a \in Assertions(solver) : a.kind = "or"
    /\ target_size > Len(independent_cycles(graph))

----------------------------------------------------------------------------
(* Claims about Sign.                                                       *)

RECURSIVE SumRight(_)
\* The signs of a path summed from its last edge backwards.
SumRight(path) ==
    IF Len(path) = 1 THEN path[1] ELSE Add(path[1], SumRight(Tail(path)))

Negatives(path) == Cardinality({i \in DOMAIN path : path[i] = "Negative"})

\* C5: addition on Sign is the two-element parity group: associative, with
\* identity Positive, Negative + Negative = Positive, and commutative; so the
\* parity of a path does not depend on the grouping of the sum and is
\* Negative exactly for an odd number of negative edges.
C5_SignParityGroup ==
    /\ \A a, b, c \in Sign : Add(Add(a, b), c) = Add(a, Add(b, c))
    /\ \A a \in Sign : Add(a, "Positive") = a /\ Add("Positive", a) = a
    /\ Add("Negative", "Negative") = "Positive"
    /\ \A a, b \in Sign : Add(a, b) = Add(b, a)
    /\ signs # <<>> =>
          /\ parity = SumRight(signs)
          /\ \A s \in Sign : Add(Add(parity, s), s) = parity
          /\ (parity = "Negative") <=> (Negatives(signs) % 2 = 1)

\* C5 witness: a path with both signs and two or more negative edges has been summed.
C5_Witness ==
    /\ Len(signs) >= 3
    /\ Negatives(signs) >= 2
    /\ \E i \in DOMAIN signs : signs[i] = "Positive"

----------------------------------------------------------------------------
(* Claims about build_static_constraints.                                   *)

\* C4: the returned predicate holds of a valuation exactly when, under the
\* update functions the valuation induces, every signed regulation is
\* monotone in its direction and every observable regulation has an input
\* pair on which the function differs; for implicit and explicit functions.
C4_CompilerSoundComplete ==
    Compiled =>
        \A regs \in {NetRegulators(network, Target(network))}, pairs \in {AllInputPairs(network)} :
            \A v \in mk_true(network) : v \in result <=> Admissible(network, regs, pairs, v)

\* An explicit function with a parameter, some valuations kept, some dropped.
C4_Witness ==
    /\ Compiled
    /\ ~ImplicitTarget
    /\ ExplicitBits(network) # {}
    /\ result # {}
    /\ result # mk_true(network)

\* The numbers of monotone Boolean functions of 1..4 variables.
MonotoneFunctions == <<3, 6, 20, 168>>

\* C6: an implicit target whose m regulators are all signed (any mix) and
\* none observable has as many admissible parametrisations as there are
\* monotone Boolean functions of m variables: 3, 6, 20, 168 for m = 1..4.
C6_DedekindCounts ==
    (Compiled /\ \A j \in DOMAIN network.regulations : ~network.regulations[j].observable) =>
        Cardinality(Parametrisations(network, Target(network), result))
            = MonotoneFunctions[Len(network.regulations)]

\* Four regulators of both signs, none observable: 168 parametrisations.
C6_Witness ==
    /\ Compiled
    /\ Len(network.regulations) = TestRegs
    /\ \A j \in DOMAIN network.regulations : ~network.regulations[j].observable
    /\ \E i, j \in DOMAIN network.regulations :
          network.regulations[i].monotonicity # network.regulations[j].monotonicity
    /\ Cardinality(result) = MonotoneFunctions[TestRegs]

\* The counts of test_constraints_1, by the flags of the single regulation.
SingleRegulatorCount(fl) ==
    CASE fl.mono = "Activation" /\ fl.obs -> 1
      [] fl.mono = "Inhibition" /\ fl.obs -> 1
      [] fl.mono = "Activation" /\ ~fl.obs -> 3
      [] fl.mono = "Inhibition" /\ ~fl.obs -> 3
      [] fl.mono = "None" /\ fl.obs -> 2
      [] fl.mono = "None" /\ ~fl.obs -> 4

\* C7: an implicit target has as many admissible parametrisations as there
\* are Boolean functions over its regulators satisfying the flags of every
\* regulation; 1, 1, 3, 3, 2, 4 for a single regulator by its flags, and 3
\* for `a -> t` with `b -|? t`.
C7_ImplicitCounts ==
    (Compiled /\ ImplicitTarget) =>
        LET fl    == FlagsOf(network)
            count == Cardinality(Parametrisations(network, Target(network), result))
        IN  /\ count = Cardinality(FunctionsSatisfying(Len(fl), fl))
            /\ Len(fl) = 1 => count = SingleRegulatorCount(fl[1])
            /\ fl = <<[mono |-> "Activation", obs |-> TRUE], [mono |-> "Inhibition", obs |-> FALSE]>>
                  => count = 3

\* test_constraints_2: `a -> t`, `b -|? t`, inputs fixed.
C7_Witness ==
    /\ Compiled
    /\ ImplicitTarget
    /\ FlagsOf(network)
          = <<[mono |-> "Activation", obs |-> TRUE], [mono |-> "Inhibition", obs |-> FALSE]>>
    /\ Cardinality(result) = 3

\* `a -> t`, `b -> t`, the function of t implicit.
TwoObservableActivators ==
    /\ ImplicitTarget
    /\ FlagsOf(network)
          = <<[mono |-> "Activation", obs |-> TRUE], [mono |-> "Activation", obs |-> TRUE]>>

\* C8 as stated: two observable activators give 3 parametrisations.
C8_Original ==
    (Compiled /\ TwoObservableActivators) =>
        Cardinality(Parametrisations(network, Target(network), result)) = 3

\* C8: an implicit target with two regulators, both activating and both
\* observable, has 2 admissible parametrisations (a & b and a | b).
C8_TwoObservableActivators ==
    (Compiled /\ TwoObservableActivators) =>
        Cardinality(Parametrisations(network, Target(network), result)) = 2

C8_Witness ==
    /\ Compiled
    /\ TwoObservableActivators
    /\ result # {}

\* Four regulators, all observable: activation, inhibition, activation,
\* inhibition.
FourObservableAlternating ==
    FlagsOf(network) = <<[mono |-> "Activation", obs |-> TRUE], [mono |-> "Inhibition", obs |-> TRUE],
                         [mono |-> "Activation", obs |-> TRUE], [mono |-> "Inhibition", obs |-> TRUE]>>

\* C9 as stated: four observable regulators of alternating sign give 168.
C9_Original ==
    (Compiled /\ FourObservableAlternating) =>
        Cardinality(Parametrisations(network, Target(network), result)) = 168

\* C9: an implicit target with four observable regulators of alternating
\* sign has 114 admissible parametrisations (the monotone functions that
\* depend on all four arguments).
C9_FourObservableAlternating ==
    (Compiled /\ FourObservableAlternating) =>
        Cardinality(Parametrisations(network, Target(network), result)) = 114

C9_Witness ==
    /\ Compiled
    /\ FourObservableAlternating
    /\ result # {}

\* `a -> t` with `$t: a`, no update function for a.
ExplicitCopyOfInput ==
    network = Network(1, FALSE, <<[mono |-> "Activation", obs |-> TRUE]>>, Var(0), FALSE)

\* C10 as stated: the compiled predicate of that network has cardinality 1.
C10_Original == (Compiled /\ ExplicitCopyOfInput) => Cardinality(result) = 1

\* C10: the compiled predicate of `a -> t` with `$t: a` and no function for
\* a accepts every valuation of the parameter bits, which are the single
\* row of the implicit table of the input a: cardinality 2.
C10_ExplicitCopyOfInput ==
    (Compiled /\ ExplicitCopyOfInput) =>
        /\ result = mk_true(network)
        /\ BddVariables(network) = {[table |-> "implicit", of |-> 0, row |-> 0]}
        /\ Cardinality(result) = 2

C10_Witness ==
    /\ Compiled
    /\ ExplicitCopyOfInput
    /\ [table |-> "implicit", of |-> 0, row |-> 0] \in UNION result

----------------------------------------------------------------------------
(* Claims about SymbolicAsyncGraph.                                         *)

\* SymbolicAsyncGraph::new has returned.
NewReturned == pc \in {"graph", "error"}

\* `a -> t` with `$t: !a`.
NegatedActivator ==
    network = Network(1, FALSE, <<[mono |-> "Activation", obs |-> TRUE]>>, Not(Var(0)), TRUE)

\* `a -> t`, `b -| t` with `$t: b` (test_invalid_function).
InvalidFunction ==
    network = Network(2, FALSE, <<[mono |-> "Activation", obs |-> TRUE],
                                  [mono |-> "Inhibition", obs |-> TRUE]>>, Var(1), TRUE)

\* C11: when the target has an explicit update function without parameters
\* that breaks a declared sign or observability of one of its regulations,
\* the compiled predicate has no valuation and SymbolicAsyncGraph::new
\* returns an error; so for `a -> t` with `$t: !a` and for `a -> t, b -| t`
\* with `$t: b`.
C11_InvalidFunctionIsError ==
    NewReturned =>
        /\ \A regs \in {NetRegulators(network, Target(network))}, pairs \in {AllInputPairs(network)} :
              (~ImplicitTarget /\ ExplicitBits(network) = {} /\ ~Admissible(network, regs, pairs, {}))
                  => (result = {} /\ ret = "Err" /\ pc = "error")
        /\ (NegatedActivator \/ InvalidFunction) => (result = {} /\ ret = "Err")

C11_Witness ==
    /\ pc = "error"
    /\ InvalidFunction
    /\ unit_bdd = {}

\* Reference semantics of the asynchronous graph (not taken from the code):
\* the values of the variables at a state.
AssignmentOf(bn, state) == [x \in NetVariables(bn) |-> (state \div 2 ^ x) % 2 = 1]

\* The successors of a pair: one variable takes the value its update
\* function has at the state, under the colour, when that differs.
Successors(bn, p) ==
    LET asg == AssignmentOf(bn, p[1])
    IN  {<<IF asg[x] THEN p[1] - 2 ^ x ELSE p[1] + 2 ^ x, p[2]>> :
            x \in {y \in NetVariables(bn) :
                      Induced(bn, y, NetRegulators(bn, y), asg, p[2]) # asg[y]}}

RECURSIVE ReachableFrom(_, _)
\* The pairs reachable from the pairs of `seen`, these included.
ReachableFrom(bn, seen) ==
    LET next == seen \cup UNION {Successors(bn, p) : p \in seen}
    IN  IF next = seen THEN seen ELSE ReachableFrom(bn, next)

\* forward_closed has returned.
Closed == pc = "closed"

\* C12: forward_closed ends, and what it returns is the largest
\* forward-closed subset of `initial`: it lies inside `initial`, no pair of
\* it has a successor outside it, and every pair of `initial` that reaches
\* only pairs of `initial` is in it.
C12_ForwardClosedLargest ==
    /\ [](Closed =>
            /\ result \subseteq arg
            /\ \A p \in result : Successors(network, p) \subseteq result
            /\ \A p \in arg : ReachableFrom(network, {p}) \subseteq arg => p \in result)
    /\ (pc = "forward" ~> Closed)

\* Pairs were taken away in two or more iterations and some are left.
C12_Witness ==
    /\ Closed
    /\ result # {}
    /\ Cardinality(arg \ result) >= 2
    /\ CanGoOut(network, arg) # arg \ result

\* The admissible colours of a network with any number of targets, by the
\* reference semantics of a valuation.
AdmissibleColours(bn) ==
    {v \in mk_true(bn) :
        \A j \in DOMAIN bn.regulations :
            LET r == bn.regulations[j]
            IN  \A regs \in {NetRegulators(bn, r.target)}, pairs \in {InputPairs(bn, r)} :
                    /\ r.monotonicity # "None" => MonotoneOk(bn, r, regs, pairs, v)
                    /\ r.observable => ObservableOk(bn, r, regs, pairs, v)}

\* C13: vertex(state), for a vector of values of all the variables,
\* returns a set with the one vertex `state` and, for it, exactly the colours
\* of the unit set: every admissible colour and no other.
C13_VertexAllColours ==
    pc = "vertex" =>
        \E s \in States(network) :
            /\ \A x \in NetVariables(network) : AssignmentOf(network, s)[x] = arg[x + 1]
            /\ result = {s} \X AdmissibleColours(network)
            /\ {p[2] : p \in result} = {p[2] : p \in unit_bdd}

\* The vertex a = 1, b = 0 of `a ->? b, b -| a`, with its three colours.
C13_Witness ==
    /\ pc = "vertex"
    /\ network = LooseLoop
    /\ arg = <<TRUE, FALSE>>
    /\ Cardinality(result) = 3
    /\ \A p \in result : p[1] = 1

----------------------------------------------------------------------------
(* Claims about the input rows.                                             *)

\* The variables whose bit is 1 in a state.
OnesOf(state, n) == {x \in 0 .. (n - 1) : (state \div 2 ^ x) % 2 = 1}

\* The iterator has returned None.
Exhausted == pc = "done" /\ ret = "None"

\* C14: for a regulation u -> t with m regulators of t the iterator yields
\* 2^(m-1) pairs, one for each assignment of the other regulators and none
\* twice; in each pair x_off has u at 0, x_on has u at 1, the two agree
\* elsewhere, and the variables that are no regulators of t are 0; whatever
\* the position of u in the regulator list.
C14_InputPairs ==
    Exhausted =>
        LET u    == network.regulations[reg_index].regulator
            t    == network.regulations[reg_index].target
            regs == {network.regulations[j].regulator :
                        j \in {i \in DOMAIN network.regulations : network.regulations[i].target = t}}
            n    == network.n
        IN  /\ Len(result) = 2 ^ (Cardinality(regs) - 1)
            /\ \A i, j \in DOMAIN result : i # j => result[i] # result[j]
            /\ \A others \in SUBSET (regs \ {u}) :
                  \E i \in DOMAIN result : OnesOf(result[i][1], n) = others
            /\ \A i \in DOMAIN result :
                  /\ result[i][1] \in 0 .. (2 ^ n - 1)
                  /\ result[i][2] \in 0 .. (2 ^ n - 1)
                  /\ u \notin OnesOf(result[i][1], n)
                  /\ OnesOf(result[i][2], n) = OnesOf(result[i][1], n) \cup {u}
                  /\ OnesOf(result[i][1], n) \subseteq regs

\* The regulator is second in the list of two or more but is not variable 1.
C14_Witness ==
    /\ Exhausted
    /\ Len(arg.regulators) >= 2
    /\ arg.regulators[2] = arg.variable
    /\ arg.variable # 1
    /\ Len(result) >= 2

\* C15: extend_table_index_to_state(i, [r_0..r_{m-1}]) has bit j of i at
\* position r_j and 0 at every other position; so index 0110 with the
\* arguments (0, 3, 5, 6) gives 0101000, and index abcd (a the lowest bit)
\* gives dc0b00a; for distinct ids no two row indices give the same state.
C15_ExtendTableIndex ==
    pc = "extended" =>
        LET i    == arg.table_index
            args == arg.args
        IN  /\ result \in 0 .. (2 ^ (MaxVarId + 1) - 1)
            /\ OnesOf(result, MaxVarId + 1)
                  = {args[j] : j \in {x \in DOMAIN args : (i \div 2 ^ (x - 1)) % 2 = 1}}
            /\ (i = 6 /\ args = <<0, 3, 5, 6>>) => result = 40
            /\ args = <<0, 3, 5, 6>> =>
                  \E a, b, c, d \in 0 .. 1 :
                      /\ i = a + 2 * b + 4 * c + 8 * d
                      /\ result = 64 * d + 32 * c + 8 * b + a
            /\ \A other \in (0 .. (2 ^ Len(args) - 1)) \ {i} :
                  extend_table_index_to_state(other, args) # result

\* The documented example: 0110 over (0, 3, 5, 6).
C15_Witness ==
    /\ pc = "extended"
    /\ arg = [table_index |-> 6, args |-> <<0, 3, 5, 6>>]
    /\ result = 40

\* C16: an inner-loop iteration of exact_fvs that does not return removes the
\* candidate assignment it extracted from cands_k (so cands_k strictly
\* shrinks and the assignment is never proposed again), and exact_fvs
\* terminates.
C16_InnerLoopShrinks ==
    /\ [][(pc = "inner" /\ pc' = "inner" /\ k' = k) =>
            /\ last_candidate' \in candidates
            /\ last_candidate' \notin candidates'
            /\ last_candidate' \notin build_cycle_clause(candidate_variables, last_cycle')
            /\ candidates' \subseteq candidates]_vars
    /\ <>(pc = "done")

\* An iteration has conjoined a clause and the search goes on.
C16_Witness ==
    /\ pc = "inner"
    /\ last_cycle # <<>>
    /\ last_candidate \notin candidates
    /\ candidates # {}

\* C17: every feedback vertex set of the graph has at least
\* L = |independent_cycles()| vertices, and the set exact_fvs returns has at
\* least L and at most U = |feedback_vertex_set()| vertices.
C17_BoundsValid ==
    pc = "done" =>
        /\ \A X \in SUBSET Variables(graph) : IsFVS(graph, X) => min_size <= Cardinality(X)
        /\ min_size <= Cardinality(result)
        /\ IF ret = "no_cycles"
           THEN Cardinality(result) = 0
           ELSE Cardinality(result) <= Cardinality(upper_bound)

\* The search returned a set strictly between the two bounds.
C17_Witness ==
    /\ pc = "done"
    /\ ret = "feasible"
    /\ min_size < Cardinality(result)
    /\ Cardinality(result) < Cardinality(upper_bound)

\* Some selection of n of the candidate variables is a feedback vertex set.
FeasibleAt(n) ==
    \E X \in SUBSET Range(candidate_variables) : Cardinality(X) = n /\ IsFVS(graph, X)

\* C18: exact_fvs returns the greedy feedback vertex set exactly when L = U
\* (then without a search) or when no k in L..U-1 has a feasible assignment;
\* it returns the empty set when independent_cycles() is empty; otherwise it
\* returns a feasible assignment of the smallest k in L..U-1 that has one.
C18_ReturnPaths ==
    pc = "done" =>
        \A cycles \in {independent_cycles(graph)}, greedy \in {feedback_vertex_set(graph)} :
            LET L == Len(cycles)
                U == Cardinality(greedy)
                AllFail == \A n \in L .. (U - 1) : ~FeasibleAt(n)
            IN  /\ (result = greedy) <=> (L = U \/ AllFail)
                /\ (L = U /\ cycles # <<>>) =>
                      ret = "lucky" /\ candidates = {} /\ last_candidate = {} /\ last_cycle = <<>>
                /\ cycles = <<>> => ret = "no_cycles" /\ result = {}
                /\ (result # greedy) =>
                      /\ ret = "feasible"
                      /\ result = valuation_to_fvs(candidate_variables, last_candidate)
                      /\ Cardinality(result) = k
                      /\ IsFVS(graph, result)
                      /\ k \in L .. (U - 1)
                      /\ \A n \in L .. (k - 1) : ~FeasibleAt(n)

\* The search tried every k below U without success and fell through.
C18_Witness ==
    /\ pc = "done"
    /\ ret = "fallthrough"
    /\ k > min_size
    /\ result = upper_bound
    /\ last_cycle # <<>>

\* C19: after the preprocessing every cycle of the graph contains a candidate
\* variable, so the clause of a conflict cycle is never the empty disjunction;
\* no candidate is acyclic; and a variable is left out only if it is on no
\* cycle, or its only regulator, or its only target, was already a candidate.
C19_CandidatePool ==
    pc # "start" =>
        \A cands \in {Range(candidate_variables)} :
            /\ ~HasCycle(graph, Variables(graph) \ cands)
            /\ last_cycle # <<>> =>
                  /\ Range(last_cycle) \cap cands # {}
                  /\ build_cycle_clause(candidate_variables, last_cycle) # {}
            /\ \A v \in cands : OnCycle(graph, Variables(graph), v)
            /\ \A v \in Variables(graph) \ cands :
                  \/ ~OnCycle(graph, Variables(graph), v)
                  \/ \E u \in cands :
                        u < v /\ {r \in Variables(graph) : <<r, v>> \in graph.edges} = {u}
                  \/ \E t \in cands :
                        t < v /\ {r \in Variables(graph) : <<v, r>> \in graph.edges} = {t}

\* A conflict cycle through a variable that was left out of the pool got its clause.
C19_Witness ==
    /\ pc = "inner"
    /\ last_cycle # <<>>
    /\ Range(last_cycle) \ Range(candidate_variables) # {}
    /\ Range(last_cycle) \cap Range(candidate_variables) # {}

\* C20: at every solver.check() of exact_fvs_solver the solver holds one
\* pushed scope with exactly the cardinality assertion of the current
\* target_size, and the learned cycle clauses at the base level; at the start
\* of every loop iteration the scope depth is 0; pop(1) removes only the
\* cardinality assertion, a learned clause is never removed, and target_size
\* never decreases.
C20_SolverScopes ==
    /\ [](pc = "check" =>
            /\ Len(solver) = 2
            /\ solver[2] = {PbEq(target_size)}
            /\ \A a \in solver[1] : a.kind = "or")
    /\ [](pc = "loop" => Len(solver) = 1 /\ \A a \in solver[1] : a.kind = "or")
    /\ [][pc = "check" /\ pc' # "done" =>
            /\ Len(solver') = 1
            /\ solver[1] \subseteq solver'[1]
            /\ target_size' >= target_size
            /\ IF Models(graph, solver) = {}
               THEN solver'[1] = solver[1] /\ target_size' = target_size + 1
               ELSE /\ target_size' = target_size
                    /\ Cardinality(solver'[1]) = Cardinality(solver[1]) + 1]_vars
    /\ [][pc = "loop" => solver'[1] = solver[1] /\ target_size' = target_size]_vars

\* check() is called with learned clauses at the base level and a target
\* size that has been increased.
C20_Witness ==
    /\ pc = "check"
    /\ Cardinality(solver[1]) >= 2
    /\ solver[2] = {PbEq(target_size)}
    /\ target_size > Len(independent_cycles(graph))

\* C21: update_functions[v] built by SymbolicAsyncGraph::new holds for
\* exactly the pairs of a state and a colour at which updating v changes its
\* value: F_v = 1 and v = 0, or F_v = 0 and v = 1, for F_v the explicit
\* function if one is given and the implicit table otherwise.
C21_UpdateFunctions ==
    pc = "graph" =>
        /\ DOMAIN update_functions = NetVariables(network)
        /\ \A v \in NetVariables(network) : \A regs \in {NetRegulators(network, v)} :
              \A state \in States(network) : \A asg \in {AssignmentOf(network, state)} :
                  \A colour \in mk_true(network) :
                      \A F_v \in {Induced(network, v, regs, asg, colour)} :
                          <<state, colour>> \in update_functions[v] <=>
                              (F_v /\ ~asg[v]) \/ (~F_v /\ asg[v])

\* A graph whose target has an explicit function with a parameter, and
\* which both changes and keeps its value somewhere.
C21_Witness ==
    /\ pc = "graph"
    /\ \E v \in NetVariables(network) :
          /\ get_update_function(network, v) # NoFunction
          /\ \E p, q \in unit_bdd :
                /\ p \in update_functions[v]
                /\ q \notin update_functions[v]
                /\ p[1] = q[1]
                /\ p[2] # q[2]

\* The conflict cycles of the restriction left by last_candidate, by pivot.
ConflictOf(v) ==
    shortest_cycle(graph,
                   Variables(graph) \ valuation_to_fvs(candidate_variables, last_candidate), v)

BitOf(b) == IF b THEN mk_one ELSE mk_zero

\* C23: eval_with extends Boolean evaluation into {0, 1, *}: for a
\* parameter-free function of Const, Var, Not, And and Or, when every
\* variable is valued 0 or 1 the result is the 0/1 value of the Boolean
\* function at that valuation (And is 1 only if both operands are 1, Or is 0
\* only if both operands are 0, Not swaps 0 and 1), and * is the result only
\* when a variable read by the function is valued *.
C23_EvalWithBoolean ==
    pc = "evaluated" =>
        /\ (\A id \in DOMAIN arg.valuation : arg.valuation[id] # mk_star) =>
              result = BitOf(RefEval(arg.update,
                                     [id \in DOMAIN arg.valuation |-> arg.valuation[id] = mk_one],
                                     {}))
        /\ result = mk_star => \E id \in Support(arg.update) : arg.valuation[id] = mk_star

\* A conjunction of a true and a false operand was evaluated.
C23_Witness ==
    /\ pc = "evaluated"
    /\ arg.update[1] = "and"
    /\ eval_with(arg.update[2], arg.valuation) = mk_one
    /\ eval_with(arg.update[3], arg.valuation) = mk_zero

====
